---- MODULE Spec2Model ----
(***************************************************************************)
(* Local Polynomial Approximation external attributes (ex_lpa_coef.py,     *)
(* ex_lpa_eigenvals.py) and the centre-trace correlation of extlib.py.     *)
(*                                                                         *)
(* Floating-point numbers are modelled by exact extended rationals         *)
(* <<n, d>>: d > 0 a finite value in lowest terms, <<0, 0>> NaN,           *)
(* <<1, 0>> +inf, <<-1, 0>> -inf.  np.exp is evaluated by its [0/1]        *)
(* rational approximant exp(-t) ~ 1/(1+t) (positive, decreasing, 1 at 0,   *)
(* 0 at +inf); every other operation is exact.                             *)
(***************************************************************************)
EXTENDS Integers, Sequences, FiniteSets, TLC

(***************************************************************************)
(* Extended rational arithmetic (IEEE-754 special values kept).            *)
(***************************************************************************)
Abs(n) == IF n < 0 THEN -n ELSE n

RECURSIVE GCD(_, _)
GCD(a, b) == IF b = 0 THEN a ELSE GCD(b, a % b)

Sign(n) == IF n > 0 THEN 1 ELSE IF n < 0 THEN -1 ELSE 0

NaN == <<0, 0>>
Inf == <<1, 0>>

Rat(n, d) ==
    IF d = 0 THEN <<Sign(n), 0>>
    ELSE LET g == GCD(Abs(n), Abs(d))
             s == IF d < 0 THEN -1 ELSE 1
         IN  <<(s * n) \div g, (s * d) \div g>>

Zero == <<0, 1>>
One == <<1, 1>>
FromInt(n) == <<n, 1>>
IsNaN(a) == a[2] = 0 /\ a[1] = 0
IsFinite(a) == a[2] > 0

RNeg(a) == <<-a[1], a[2]>>

RMul(a, b) ==
    IF a[2] = 0 \/ b[2] = 0
    THEN (IF a[1] = 0 \/ b[1] = 0 THEN NaN ELSE <<Sign(a[1]) * Sign(b[1]), 0>>)
    ELSE IF a[1] = 0 \/ b[1] = 0 THEN Zero
    ELSE LET g1 == GCD(Abs(a[1]), b[2])
             g2 == GCD(Abs(b[1]), a[2])
         IN  <<(a[1] \div g1) * (b[1] \div g2), (a[2] \div g2) * (b[2] \div g1)>>

RAdd(a, b) ==
    IF a[2] = 0 \/ b[2] = 0
    THEN (IF IsNaN(a) \/ IsNaN(b) THEN NaN
          ELSE IF a[2] = 0 /\ b[2] = 0
               THEN (IF a[1] = b[1] THEN a ELSE NaN)
               ELSE IF a[2] = 0 THEN a ELSE b)
    ELSE IF a[1] = 0 THEN b
    ELSE IF b[1] = 0 THEN a
    ELSE LET g == GCD(a[2], b[2])
         IN  Rat(a[1] * (b[2] \div g) + b[1] * (a[2] \div g), a[2] * (b[2] \div g))

RSub(a, b) == RAdd(a, RNeg(b))

\* a / b as numpy divides arrays: x/0 is +-inf, 0/0 is NaN, no exception.
RDiv(a, b) ==
    IF b[2] = 0
    THEN (IF IsNaN(b) \/ a[2] = 0 THEN NaN ELSE Zero)
    ELSE IF b[1] = 0
    THEN (IF a[1] = 0 \/ IsNaN(a) THEN NaN ELSE <<Sign(a[1]), 0>>)
    ELSE RMul(a, IF b[1] > 0 THEN <<b[2], b[1]>> ELSE <<-b[2], -b[1]>>)

\* a <= b on finite values
RLeq(a, b) == a[1] * b[2] <= b[1] * a[2]

\* np.exp(-t) for t >= 0: the rational approximant 1/(1+t); exp(-inf) = 0, exp(nan) = nan.
ExpNeg(t) ==
    IF IsNaN(t) THEN NaN
    ELSE IF t[2] = 0 THEN (IF t[1] > 0 THEN Zero ELSE Inf)
    ELSE RDiv(One, RAdd(One, t))

(***************************************************************************)
(* lpa3D_init: the ten deconvolution kernels.                              *)
(***************************************************************************)
\* np.linspace(-h, h, n) with h = (n-1)/2: element i (0-based) is -h + i.
Linspace(n, i) == Rat(2 * i - (n - 1), 2)

\* C-order flattening of a (X, Y, Z) array: 1-based position of [a, b, c].
Flat(a, b, c, Y, Z) == (a * Y + b) * Z + c + 1
IdxX(p, Y, Z) == (p - 1) \div (Y * Z)
IdxY(p, Y, Z) == ((p - 1) \div Z) % Y
IdxZ(p, Y, Z) == (p - 1) % Z

\* F(1) + ... + F(n), accumulated in that order
RECURSIVE SumTo(_, _)
SumTo(F(_), n) == IF n = 0 THEN Zero ELSE RAdd(SumTo(F, n - 1), F(n))

Dot(u, v) == LET term(p) == RMul(u[p], v[p]) IN SumTo(term, Len(u))

\* The same sum over integers
RECURSIVE ISumTo(_, _)
ISumTo(F(_), n) == IF n = 0 THEN 0 ELSE ISumTo(F, n - 1) + F(n)

LCM(a, b) == (a \div GCD(a, b)) * b

RECURSIVE LcmTo(_, _)
LcmTo(F(_), n) == IF n = 0 THEN 1 ELSE LCM(LcmTo(F, n - 1), F(n))

\* One Gauss-Jordan step on the augmented matrix aug (n rows) at column col,
\* with the first row at or below col whose entry is non-zero as pivot.
PivotRows(aug, n, col) == {r \in col..n : aug[r][col][1] # 0}

Minimum(S) == CHOOSE x \in S : \A y \in S : x <= y

Eliminate(aug, n, col) ==
    LET piv == Minimum(PivotRows(aug, n, col))
        swapped == [r \in 1..n |-> IF r = col THEN aug[piv]
                                   ELSE IF r = piv THEN aug[col] ELSE aug[r]] \o <<>>
        pv == swapped[col][col]
        prow == [j \in 1..(2 * n) |-> RDiv(swapped[col][j], pv)] \o <<>>
    IN  [r \in 1..n |->
            IF r = col THEN prow
            ELSE IF swapped[r][col][1] = 0 THEN swapped[r]
            ELSE [j \in 1..(2 * n) |->
                     RSub(swapped[r][j], RMul(swapped[r][col], prow[j]))] \o <<>>] \o <<>>

RECURSIVE GaussJordan(_, _, _)
GaussJordan(aug, n, col) ==
    IF col > n THEN aug
    ELSE IF PivotRows(aug, n, col) = {} THEN <<>>
    ELSE GaussJordan(Eliminate(aug, n, col), n, col + 1)

\* np.linalg.inv of an n x n matrix of finite values: <<>> stands for LinAlgError.
Inv(M, n) ==
    LET aug == [i \in 1..n |->
                   [j \in 1..(2 * n) |->
                       IF j <= n THEN M[i][j]
                       ELSE IF j - n = i THEN One ELSE Zero] \o <<>>] \o <<>>
        res == GaussJordan(aug, n, 1)
    IN  IF res = <<>> THEN <<>>
        ELSE [i \in 1..n |-> [j \in 1..n |-> res[i][n + j]] \o <<>>] \o <<>>

NCoef == 10

\* The monomials (1, x, y, z, x^2, y^2, z^2, xy, xz, yz) at a point.
Monomials(x, y, z) ==
    <<One, x, y, z, RMul(x, x), RMul(y, y), RMul(z, z),
      RMul(x, y), RMul(x, z), RMul(y, z)>>

Two == <<2, 1>>

\* x**2/(2*sx**2) + y**2/(2*sy**2) + z**2/(2*sz**2), then exp(-.)
Weight(x, y, z, sx, sy, sz) ==
    LET q(v, s) == RDiv(RMul(v, v), RMul(Two, RMul(s, s)))
    IN  ExpNeg(RAdd(RAdd(q(x, sx), q(y, sy)), q(z, sz)))

\* A row of finite values over their least common denominator: the value at
\* p is num[p]/den.  A row of NaNs has den = 0.
Pack(row) ==
    LET den == LcmTo(LAMBDA p : row[p][2], Len(row))
    IN  [num |-> [p \in 1..Len(row) |-> row[p][1] * (den \div row[p][2])] \o <<>>,
         den |-> den]

NaNRow(N) == [num |-> [p \in 1..N |-> 0] \o <<>>, den |-> 0]

KernelAt(ker, i, p) == Rat(ker.k[i].num[p], ker.k[i].den)

\* lpa3D_init(xs, ys, zs, sigma).  The result is a record: kind "ok" with the
\* kernels k[i] (i in 1..10; the value at the C-order position p of the
\* (xs, ys, zs) window is k[i].num[p]/k[i].den), kind "nan" when the weights
\* hold a NaN and LAPACK returns NaNs, kind "LinAlgError" when np.linalg.inv raises.  A matrix holding NaN has no
\* exact zero pivot: whether LAPACK reports it singular depends on the build,
\* so nanRaises is either.  inverted records that line 66 called
\* np.linalg.inv: nothing precedes it that could return or raise.
lpa3D_init(xs, ys, zs, sigma, nanRaises) ==
    LET sx == RMul(sigma, FromInt(xs - 1))
        sy == RMul(sigma, FromInt(ys - 1))
        sz == RMul(sigma, FromInt(zs - 1))
        N == xs * ys * zs
        X(p) == Linspace(xs, IdxX(p, ys, zs))
        Y(p) == Linspace(ys, IdxY(p, ys, zs))
        Z(p) == Linspace(zs, IdxZ(p, ys, zs))
        w == [p \in 1..N |-> Weight(X(p), Y(p), Z(p), sx, sy, sz)] \o <<>>
        A == [p \in 1..N |-> Monomials(X(p), Y(p), Z(p))] \o <<>>
        ATW == [i \in 1..NCoef |-> [p \in 1..N |-> RMul(A[p][i], w[p])] \o <<>>] \o <<>>
        ATWA == [i \in 1..NCoef |->
                    [j \in 1..NCoef |->
                        Dot(ATW[i], [p \in 1..N |-> A[p][j]] \o <<>>)] \o <<>>] \o <<>>
        IM == Inv(ATWA, NCoef)
    IN  IF \E p \in 1..N : IsNaN(w[p])
        THEN (IF nanRaises
              THEN [kind |-> "LinAlgError", shape |-> <<xs, ys, zs>>, inverted |-> TRUE,
                    k |-> <<>>]
              ELSE [kind |-> "nan", shape |-> <<xs, ys, zs>>, inverted |-> TRUE,
                    k |-> [i \in 1..NCoef |-> NaNRow(N)] \o <<>>])
        ELSE IF IM = <<>>
        THEN [kind |-> "LinAlgError", shape |-> <<xs, ys, zs>>, inverted |-> TRUE,
              k |-> <<>>]
        ELSE [kind |-> "ok", shape |-> <<xs, ys, zs>>, inverted |-> TRUE,
              k |-> [i \in 1..NCoef |->
                        Pack([p \in 1..N |->
                                 Dot(IM[i], [j \in 1..NCoef |-> ATW[j][p]] \o <<>>)]
                             \o <<>>)] \o <<>>]

(***************************************************************************)
(* sconvolve: correlation of a 3D filter with the centre trace of a block. *)
(* A 3D array is a record [shape |-> <<X, Y, Z>>, data |-> C-order values].*)
(***************************************************************************)
\* Python's range(a, b)
PyRange(a, b) == {i \in a..(b - 1) : TRUE}

\* range(Zf2, Z-Zf2-1) (the last sample dropped)
LoopRangeShort(Z, Zf) == PyRange(Zf \div 2, Z - (Zf \div 2) - 1)

\* range(Zf2, Z-Zf2): the samples the outer loop visits (extlib.py line 138)
LoopRange(Z, Zf) == PyRange(Zf \div 2, Z - (Zf \div 2))

\* X2+ii (the half filter width not subtracted)
ArrIndexUncentred(X, Xf, ii) == (X \div 2) + ii

\* The block index read on one axis for loop value ii: X2-Xf2+ii
ArrIndex(X, Xf, ii) == (X \div 2) - (Xf \div 2) + ii

\* The block index read on the z axis at sample i for loop value kk: i-Zf2+kk
ArrIndexZ(i, Zf, kk) == i - (Zf \div 2) + kk

\* The filter index read on one axis for loop value ii: Xf-1-ii
FiltIndex(Xf, ii) == Xf - 1 - ii

\* Every index triple the loops read in the block, and in the filter: the
\* loops nest, so every combination of the per-axis indices occurs once the
\* outer loop runs at all.
ArrReads(ashape, fshape) ==
    IF LoopRange(ashape[3], fshape[3]) = {} THEN {}
    ELSE {ArrIndex(ashape[1], fshape[1], ii) : ii \in PyRange(0, fshape[1])}
         \X {ArrIndex(ashape[2], fshape[2], jj) : jj \in PyRange(0, fshape[2])}
         \X {ArrIndexZ(i, fshape[3], kk) :
                 <<i, kk>> \in LoopRange(ashape[3], fshape[3]) \X PyRange(0, fshape[3])}

FiltReads(ashape, fshape) ==
    IF LoopRange(ashape[3], fshape[3]) = {} THEN {}
    ELSE {FiltIndex(fshape[1], ii) : ii \in PyRange(0, fshape[1])}
         \X {FiltIndex(fshape[2], jj) : jj \in PyRange(0, fshape[2])}
         \X {FiltIndex(fshape[3], kk) : kk \in PyRange(0, fshape[3])}

\* numpy indexing on one axis of extent n: a negative index -n..-1 counts
\* from the end; anything else outside 0..n-1 is out of bounds.
InBounds(idx, n) == 0 <= idx /\ idx < n
Wraps(idx, n) == -n <= idx /\ idx < 0
Resolve(idx, n) == IF idx < 0 THEN idx + n ELSE idx
Addressable(t, shape) ==
    \A d \in 1..3 : InBounds(t[d], shape[d]) \/ Wraps(t[d], shape[d])

\* arr[a, b, c]; oob is what an out-of-bounds read returns when no exception
\* is raised (a compiled loop without bounds checking).
ArrAt(arr, a, b, c, oob) ==
    IF Addressable(<<a, b, c>>, arr.shape)
    THEN arr.data[Flat(Resolve(a, arr.shape[1]), Resolve(b, arr.shape[2]),
                       Resolve(c, arr.shape[3]), arr.shape[2], arr.shape[3])]
    ELSE oob

\* np.zeros(Z); prev is whatever the output slot held before the call.
StaleZeros(Z, prev) ==
    [i \in 0..(Z - 1) |-> IF i \in DOMAIN prev THEN prev[i] ELSE Zero]

Zeros(Z, prev) == [i \in 0..(Z - 1) |-> Zero]

\* The inner three loops at sample i: num accumulated over ii, jj, kk.  The
\* block holds integers and the filter row fdata one denominator, so the sum
\* is taken over the numerators.
Correlate(arr, fshape, fdata, i, oob) ==
    LET Xf == fshape[1]
        Yf == fshape[2]
        Zf == fshape[3]
        N == Xf * Yf * Zf
        term(q) ==
            LET ii == IdxX(q, Yf, Zf)
                jj == IdxY(q, Yf, Zf)
                kk == IdxZ(q, Yf, Zf)
            IN  fdata.num[Flat(FiltIndex(Xf, ii), FiltIndex(Yf, jj), FiltIndex(Zf, kk),
                               Yf, Zf)]
                * ArrAt(arr, ArrIndex(arr.shape[1], Xf, ii),
                        ArrIndex(arr.shape[2], Yf, jj),
                        ArrIndexZ(i, Zf, kk), oob)
    IN  IF fdata.den = 0 THEN NaN ELSE Rat(ISumTo(term, N), fdata.den)

sconvolve(arr, fshape, fdata, prev, oob) ==
    LET Z == arr.shape[3]
        result == Zeros(Z, prev)
    IN  [i \in 0..(Z - 1) |->
            IF i \in LoopRange(Z, fshape[3])
            THEN Correlate(arr, fshape, fdata, i, oob)
            ELSE result[i]]

(***************************************************************************)
(* The orientation tensor and its eigenvalues (ex_lpa_eigenvals.py).       *)
(***************************************************************************)
Min3(a, b, c) == IF a <= b /\ a <= c THEN a ELSE IF b <= c THEN b ELSE c

\* 8*((min(xs,ys,zs)-1)*wf)**2, the divisor of line 36
GammaDen(xs, ys, zs, wf) ==
    LET m == RMul(FromInt(Min3(xs, ys, zs) - 1), wf)
    IN  RMul(FromInt(8), RMul(m, m))

\* gam = 1/(8*((min(xs,ys,zs)-1)*wf)**2): Python scalars, so a zero divisor
\* raises ZeroDivisionError (GammaRaises) instead of giving inf.
GammaRaises(xs, ys, zs, wf) == GammaDen(xs, ys, zs, wf)[1] = 0

Gamma(xs, ys, zs, wf) == RDiv(One, GammaDen(xs, ys, zs, wf))

Half(a) == RDiv(a, Two)

\* 3x3 matrix product and transpose, matrices as sequences of rows
MatMul3(P, Q) ==
    [i \in 1..3 |->
        [j \in 1..3 |->
            RAdd(RAdd(RMul(P[i][1], Q[1][j]), RMul(P[i][2], Q[2][j])),
                 RMul(P[i][3], Q[3][j]))] \o <<>>] \o <<>>

Transpose3(P) == [i \in 1..3 |-> [j \in 1..3 |-> P[j][i]] \o <<>>] \o <<>>

\* A at sample i: [[r4, r7/2, r8/2], [r7/2, r5, r9/2], [r8/2, r9/2, r6]];
\* r is the sequence of the ten profiles, r[k + 1] the profile of coefficient k.
CurvatureBlock(r, i) ==
    << <<r[5][i], Half(r[8][i]), Half(r[9][i])>>,
       <<Half(r[8][i]), r[6][i], Half(r[10][i])>>,
       <<Half(r[9][i]), Half(r[10][i]), r[7][i]>> >>

\* B at sample i: the column (r1, r2, r3); BBT its outer product
Gradient(r, i) == <<r[2][i], r[3][i], r[4][i]>>

OuterProduct(g) == [i \in 1..3 |-> [j \in 1..3 |-> RMul(g[i], g[j])] \o <<>>] \o <<>>

\* T = AAT - gam*BBT (sign slip)
TensorMinus(r, i, gam0) ==
    LET A == CurvatureBlock(r, i)
        AAT == MatMul3(A, Transpose3(A))
        BBT == OuterProduct(Gradient(r, i))
    IN  [a \in 1..3 |-> [b \in 1..3 |->
            RSub(AAT[a][b], RMul(gam0, BBT[a][b]))] \o <<>>] \o <<>>

\* T = AAT + gam*BBT at sample i (lines 42-46)
Tensor(r, i, gam0) ==
    LET A == CurvatureBlock(r, i)
        AAT == MatMul3(A, Transpose3(A))
        BBT == OuterProduct(Gradient(r, i))
    IN  [a \in 1..3 |-> [b \in 1..3 |->
            RAdd(AAT[a][b], RMul(gam0, BBT[a][b]))] \o <<>>] \o <<>>

\* The characteristic polynomial t^3 - c2 t^2 + c1 t - c0 of the symmetric
\* integer matrix with lower triangle (a; b d; c e f), as <<c2, c1, c0>>.
CharPoly(a, b, c, d, e, f) ==
    <<a + d + f,
      (a * d - b * b) + (a * f - c * c) + (d * f - e * e),
      a * (d * f - e * e) - b * (b * f - e * c) + c * (b * e - d * c)>>

\* The number of roots >= t of a cubic p with three real roots (Budan-Fourier:
\* the sign variations of p and its three derivatives at t count the roots
\* > t, the leading zeros of that sequence the multiplicity of t).
CountGeq(cp, t) ==
    LET fs == <<t * t * t - cp[1] * t * t + cp[2] * t - cp[3],
                3 * t * t - 2 * cp[1] * t + cp[2],
                6 * t - 2 * cp[1],
                6>>
        nz == SelectSeq(fs, LAMBDA v : v # 0)
        V == Cardinality({j \in 1..(Len(nz) - 1) : Sign(nz[j]) # Sign(nz[j + 1])})
        m == IF fs[1] # 0 THEN 0 ELSE IF fs[2] # 0 THEN 1 ELSE IF fs[3] # 0 THEN 2 ELSE 3
    IN  V + m

\* The largest t in lo..hi with CountGeq(cp, t) >= k (CountGeq does not
\* increase with t, and CountGeq(cp, lo) >= k): the floor of the k-th largest root.
RECURSIVE FloorRoot(_, _, _, _)
FloorRoot(cp, k, lo, hi) ==
    IF lo = hi THEN lo
    ELSE LET mid == (lo + hi + 1) \div 2
         IN  IF CountGeq(cp, mid) >= k
             THEN FloorRoot(cp, k, mid, hi)
             ELSE FloorRoot(cp, k, lo, mid - 1)

\* np.linalg.eigvalsh(T) for one 3x3 matrix: the eigenvalues in ascending
\* order, read from the lower triangle.  With S the common denominator of the
\* entries, each eigenvalue is located on the grid of step 1/S (rounded down).
eigvalsh(T) ==
    IF \E i \in 1..3 : \E j \in 1..i : ~IsFinite(T[i][j]) THEN <<NaN, NaN, NaN>>
    ELSE
    LET S == LCM(LCM(LCM(T[1][1][2], T[2][1][2]), LCM(T[3][1][2], T[2][2][2])),
                 LCM(T[3][2][2], T[3][3][2]))
        I(i, j) == T[i][j][1] * (S \div T[i][j][2])
        cp == CharPoly(I(1, 1), I(2, 1), I(3, 1), I(2, 2), I(3, 2), I(3, 3))
        R == Abs(I(1, 1)) + Abs(I(2, 2)) + Abs(I(3, 3))
             + 2 * (Abs(I(2, 1)) + Abs(I(3, 1)) + Abs(I(3, 2)))
    IN  <<Rat(FloorRoot(cp, 3, -R, R), S), Rat(FloorRoot(cp, 2, -R, R), S),
          Rat(FloorRoot(cp, 1, -R, R), S)>>

\* np.sort of three values, ascending (insertion sort)
Sort3(w) ==
    LET a == IF RLeq(w[1], w[2]) THEN <<w[1], w[2]>> ELSE <<w[2], w[1]>>
    IN  IF RLeq(a[2], w[3]) THEN <<a[1], a[2], w[3]>>
        ELSE IF RLeq(a[1], w[3]) THEN <<a[1], w[3], a[2]>>
        ELSE <<w[3], a[1], a[2]>>

(***************************************************************************)
(* The two attribute scripts as one state machine.                         *)
(***************************************************************************)
\* xa.params['Output'] of the two scripts
RNames == <<"r0", "r1", "r2", "r3", "r4", "r5", "r6", "r7", "r8", "r9">>
ENames == <<"e1", "e2", "e3">>
OutputNames(v) == IF v = "coef" THEN {RNames[i] : i \in 1..NCoef} ELSE {ENames[i] : i \in 1..3}

EmptyDict == [n \in {} |-> NaN]

\* d.update(new) on a dict
Assign(d, new) ==
    [n \in (DOMAIN d) \cup (DOMAIN new) |-> IF n \in DOMAIN new THEN new[n] ELSE d[n]]

\* The largest block z-extent the driver supplies beyond the window's
ExtraZ == 1

\* The longest block when blocks of any shape are supplied
MaxAnyZ == 7

\* Window geometries <<nrinl, nrcrl, ZSampMargin>> and weight factors
Windows ==
    {<<3, 3, <<-1, 1>>>>, <<2, 3, <<-1, 1>>>>, <<1, 4, <<-1, 1>>>>, <<2, 2, <<-1, 0>>>>}
Sigmas == {<<1, 2>>, <<-1, 2>>, <<0, 1>>}

\* Coefficients (c0..c9) of the polynomials the input blocks are sampled from
Polys ==
    {<<1, 0, 0, 0, 0, 0, 0, 0, 0, 0>>,
     <<0, 1, 0, 0, 0, 0, 0, 0, 0, 0>>,
     <<0, 0, 0, 1, 0, 0, 1, 0, 0, 0>>,
     <<2, 1, -1, 1, 1, -1, 1, 2, -2, 2>>}

PolyAt(c, x, y, z) ==
    c[1] + c[2] * x + c[3] * y + c[4] * z + c[5] * x * x + c[6] * y * y + c[7] * z * z
    + c[8] * x * y + c[9] * x * z + c[10] * y * z

\* The block of the given shape sampled from the polynomial c centred on
\* the block's centre index (X//2, Y//2, Z//2)
PolyBlock(c, shape) ==
    [shape |-> shape,
     data |-> [p \in 1..(shape[1] * shape[2] * shape[3]) |->
                  PolyAt(c, IdxX(p, shape[2], shape[3]) - (shape[1] \div 2),
                         IdxY(p, shape[2], shape[3]) - (shape[2] \div 2),
                         IdxZ(p, shape[2], shape[3]) - (shape[3] \div 2))] \o <<>>]

\* What an out-of-bounds read yields in a loop compiled without bounds checks
Garbage == {0, 7}

NoKernel == [kind |-> "none", shape |-> <<0, 0, 0>>, inverted |-> FALSE, k |-> <<>>]
NoInput == [shape |-> <<0, 0, 0>>, data |-> <<>>]
NoMemo == [block |-> NoInput, out |-> EmptyDict, others |-> FALSE]

VARIABLES
    variant,    \* which script runs: "coef" (ex_lpa_coef) or "eig" (ex_lpa_eigenvals)
    SI,         \* xa.SI: [nrinl, nrcrl]
    params,     \* xa.params: [ZSampMargin, Par_0]
    pc,         \* position in doCompute
    err,        \* the exception that ended the program, "none" while it runs
    kernel,     \* doCompute's kernel
    gam,        \* doCompute's gam (eig)
    Input,      \* xa.Input
    Output,     \* xa.Output
    r,          \* doCompute's r (eig)
    T,          \* doCompute's T, per sample (eig)
    w,          \* doCompute's w, per sample (eig)
    sent,       \* what the last doOutput wrote
    poly,       \* the polynomial the current block was sampled from
    pending,    \* doInput calls not yet answered by a doOutput
    memo        \* one earlier (block, output) pair; others: a different block came since

vars == <<variant, SI, params, pc, err, kernel, gam, Input, Output, r, T, w, sent, poly,
          pending, memo>>

xs == SI.nrinl
ys == SI.nrcrl
\* zs = ZSampMargin[1] - ZSampMargin[0] + 1
zs == params.ZSampMargin[2] - params.ZSampMargin[1] + 1
wf == params.Par_0

InitWith(variants, windows, sigmas) ==
    /\ variant \in variants
    /\ \E win \in windows, s \in sigmas :
          /\ SI = [nrinl |-> win[1], nrcrl |-> win[2]]
          /\ params = [ZSampMargin |-> win[3], Par_0 |-> s]
    /\ pc = "start"
    /\ err = "none"
    /\ kernel = NoKernel
    /\ gam = NaN
    /\ Input = NoInput
    /\ Output = EmptyDict
    /\ r = <<>>
    /\ T = EmptyDict
    /\ w = EmptyDict
    /\ sent = EmptyDict
    /\ poly = <<>>
    /\ pending = 0
    /\ memo = NoMemo

Init == InitWith({"coef", "eig"}, Windows, Sigmas)

Die(e) ==
    /\ pc' = "dead"
    /\ err' = e

\* kernel = lpa3D_init(xs, ys, zs, wf)   (ex_lpa_coef.py 38-39, ex_lpa_eigenvals.py 31-35)
Build ==
    /\ pc = "start"
    /\ \E nanRaises \in BOOLEAN :
          LET res == lpa3D_init(xs, ys, zs, wf, nanRaises)
          IN  IF res.kind = "LinAlgError"
              THEN /\ Die("LinAlgError")
                   /\ kernel' = [NoKernel EXCEPT !.inverted = res.inverted]
              ELSE /\ kernel' = res
                   /\ pc' = IF variant = "eig" THEN "gamma" ELSE "ready"
                   /\ err' = err
    /\ UNCHANGED <<variant, SI, params, gam, Input, Output, r, T, w, sent, poly, pending, memo>>

\* gam = 1/(8*((min(xs,ys,zs)-1)*wf)**2)   (ex_lpa_eigenvals.py 36)
ComputeGamma ==
    /\ pc = "gamma"
    /\ IF GammaRaises(xs, ys, zs, wf)
       THEN Die("ZeroDivisionError") /\ gam' = gam
       ELSE gam' = Gamma(xs, ys, zs, wf) /\ pc' = "ready" /\ err' = err
    /\ UNCHANGED <<variant, SI, params, kernel, Input, Output, r, T, w, sent, poly, pending, memo>>

\* The shapes (nrinl, nrcrl, nrsamp) the host delivers: the window's x and y
\* extents and at least the window's z extent.
DriverShapes == {<<xs, ys, Z>> : Z \in zs..(zs + ExtraZ)}

\* Blocks of any shape, down to a single sample and up to one more than the
\* window on x and y.
AnyShapes ==
    {<<X, Y, Z>> : <<X, Y, Z>> \in ((xs - 1)..(xs + 1)) \X ((ys - 1)..(ys + 1))
                                    \X (((zs - 1)..(zs + 1)) \cup {MaxAnyZ})}

\* xa.doInput(): the next block arrives in xa.Input
doInput(shapes, polys) ==
    /\ pc = "ready"
    /\ \E shape \in shapes, c \in polys :
          /\ Input' = PolyBlock(c, shape)
          /\ poly' = c
    /\ pc' = "input"
    /\ pending' = pending + 1
    /\ memo' = IF memo # NoMemo /\ Input' # memo.block
               THEN [memo EXCEPT !.others = TRUE]
               ELSE memo
    /\ UNCHANGED <<variant, SI, params, err, kernel, gam, Output, r, T, w, sent>>

\* for i in range(0,9) (the last coefficient never assigned)
CoefOutputsNine(out, arr, ker, oob) ==
    [n \in {RNames[i + 1] : i \in PyRange(0, 9)} |->
        LET i == CHOOSE j \in PyRange(0, 9) : RNames[j + 1] = n
        IN  sconvolve(arr, ker.shape, ker.k[i + 1],
                      IF n \in DOMAIN out THEN out[n] ELSE EmptyDict, oob)]

\* for i in range(0,10): xa.Output['r'+str(i)] = sconvolve(xa.Input, kernel[i])
CoefOutputs(out, arr, ker, oob) ==
    [n \in {RNames[i + 1] : i \in PyRange(0, 10)} |->
        LET i == CHOOSE j \in PyRange(0, 10) : RNames[j + 1] = n
        IN  sconvolve(arr, ker.shape, ker.k[i + 1],
                      IF n \in DOMAIN out THEN out[n] ELSE EmptyDict, oob)]

\* r = np.zeros((10, nrsamp)); for i in range(0,10): r[i,:] = xl.sconvolve(xa.Input, kernel[i])
EigCoefs(arr, ker, oob) ==
    [i \in 1..NCoef |-> sconvolve(arr, ker.shape, ker.k[i], EmptyDict, oob)] \o <<>>

\* e1, e2, e3 <- v[0], v[1], v[2] (order slip)
EigOutputsAscending(v, Z) ==
    [n \in {"e1", "e2", "e3"} |->
        [i \in 0..(Z - 1) |-> v[i][IF n = "e1" THEN 1 ELSE IF n = "e2" THEN 2 ELSE 3]]]

\* xa.Output['e1'] = v[2,:]; ['e2'] = v[1,:]; ['e3'] = v[0,:]   (lines 49-51)
EigOutputs(v, Z) ==
    [n \in {"e1", "e2", "e3"} |->
        [i \in 0..(Z - 1) |-> v[i][IF n = "e1" THEN 3 ELSE IF n = "e2" THEN 2 ELSE 1]]]

\* Whether some read of the loops falls outside the block
ReadsOutside(ashape, fshape) ==
    \E t \in ArrReads(ashape, fshape) : ~Addressable(t, ashape)

\* The loop body after doInput with oob standing for any value read outside
\* the block: lines 42-43 of ex_lpa_coef.py, lines 39-51 of ex_lpa_eigenvals.py.
Assignments(oob) ==
    /\ pc' = "computed"
    /\ err' = err
    /\ IF variant = "coef"
       THEN /\ Output' = Assign(Output, CoefOutputs(Output, Input, kernel, oob))
            /\ UNCHANGED <<r, T, w>>
       ELSE LET Z == Input.shape[3]
            IN  /\ r' = EigCoefs(Input, kernel, oob)
                /\ T' = [i \in 0..(Z - 1) |-> Tensor(r', i, gam)]
                /\ w' = [i \in 0..(Z - 1) |-> eigvalsh(T'[i])]
                /\ Output' = Assign(Output, EigOutputs([i \in 0..(Z - 1) |-> Sort3(w'[i])], Z))

\* The body of the while loop between doInput and doOutput.  A read outside
\* the block either raises IndexError (interpreted loop) or returns whatever
\* lies there (loop compiled without bounds checks).
Compute ==
    /\ pc = "input"
    /\ IF ReadsOutside(Input.shape, kernel.shape)
       THEN \/ Die("IndexError") /\ UNCHANGED <<Output, r, T, w>>
            \/ \E oob \in Garbage : Assignments(oob)
       ELSE Assignments(0)
    /\ UNCHANGED <<variant, SI, params, kernel, gam, Input, sent, poly, pending, memo>>

\* xa.doOutput(): the declared outputs leave; memo may keep this iteration
doOutput(remember) ==
    /\ pc = "computed"
    /\ sent' = [n \in OutputNames(variant) |-> Output[n]]
    /\ pending' = pending - 1
    /\ pc' = "ready"
    /\ \/ memo' = memo
       \/ /\ remember
          /\ memo = NoMemo
          /\ memo' = [block |-> Input, out |-> sent', others |-> FALSE]
    /\ UNCHANGED <<variant, SI, params, err, kernel, gam, Input, Output, r, T, w, poly>>

DriverInput == doInput(DriverShapes, Polys)

AnyPolys == {<<2, 1, -1, 1, 1, -1, 1, 2, -2, 2>>}

AnyInput == doInput(AnyShapes, AnyPolys)

Emit == doOutput(TRUE)

EmitAny == doOutput(FALSE)

Next == Build \/ ComputeGamma \/ DriverInput \/ Compute \/ Emit

Spec == Init /\ [][Next]_vars

\* The tensor assembly and eigen-decomposition of one sample (lines 42-51)
\* applied to coefficient profiles and mixing constants drawn from small sets.
TensorGammas == {<<0, 1>>, <<1, 8>>, <<2, 1>>}

TensorCoefs ==
    {<<0, g[1], g[2], g[3], q[1], q[2], q[3], m[1], m[2], m[3]>> :
        <<g, q, m>> \in ({-1, 0, 2} \X {-1, 0, 2} \X {-1, 0, 2})
                        \X ({-1, 0, 1} \X {-1, 0, 1} \X {-1, 0, 1})
                        \X ({0, 1} \X {0, 1} \X {0, 1})}

InitTensor ==
    /\ variant = "eig"
    /\ SI = [nrinl |-> 3, nrcrl |-> 3]
    /\ params = [ZSampMargin |-> <<-1, 1>>, Par_0 |-> <<1, 2>>]
    /\ pc = "tensor"
    /\ err = "none"
    /\ kernel = NoKernel
    /\ gam \in TensorGammas
    /\ Input = NoInput
    /\ Output = EmptyDict
    /\ r \in {[k \in 1..NCoef |-> [i \in 0..0 |-> FromInt(c[k])]] \o <<>> : c \in TensorCoefs}
    /\ T = EmptyDict
    /\ w = EmptyDict
    /\ sent = EmptyDict
    /\ poly = <<>>
    /\ pending = 0
    /\ memo = NoMemo

Assemble ==
    /\ pc = "tensor"
    /\ pc' = "computed"
    /\ T' = [i \in 0..0 |-> Tensor(r, i, gam)]
    /\ w' = [i \in 0..0 |-> eigvalsh(T'[i])]
    /\ Output' = Assign(Output, EigOutputs([i \in 0..0 |-> Sort3(w'[i])], 1))
    /\ UNCHANGED <<variant, SI, params, err, kernel, gam, Input, r, sent, poly, pending, memo>>

NextTensor == Assemble

SpecTensor == InitTensor /\ [][NextTensor]_vars

\* The coefficient script fed blocks of any shape
InitAny == InitWith({"coef"}, {<<3, 3, <<-1, 1>>>>, <<2, 3, <<-1, 0>>>>}, {<<1, 2>>, <<0, 1>>})

NextAny == Build \/ AnyInput \/ Compute \/ EmitAny

SpecAny == InitAny /\ [][NextAny]_vars

(***************************************************************************)
(* Properties.                                                             *)
(***************************************************************************)
\* The samples of the current block the correlation has a full window for
ValidSamples == {i \in 0..(Input.shape[3] - 1) :
                    kernel.shape[3] \div 2 <= i /\ i < Input.shape[3] - (kernel.shape[3] \div 2)}

\* The block is at least as large as the kernel on every axis
BlockCoversKernel == \A d \in 1..3 : Input.shape[d] >= kernel.shape[d]

\* The coefficients of the same polynomial about a point d samples further along z
Recentre(c, d) ==
    <<c[1] + c[4] * d + c[7] * d * d, c[2] + c[9] * d, c[3] + c[10] * d,
      c[4] + 2 * c[7] * d, c[5], c[6], c[7], c[8], c[9], c[10]>>

\* C1: for every window of at least ten samples and every positive weight
\* factor, the ten profiles computed from a block sampled from the polynomial
\* c0..c9 equal the polynomial's coefficients about each valid sample:
\* r_k = c_k for k = 0..9, the odd-order r1, r2, r3 with their sign.
C1_Exactness ==
    (/\ variant = "coef"
     /\ pc = "computed"
     /\ kernel.kind = "ok"
     /\ xs * ys * zs >= 10
     /\ wf[1] > 0)
    => \A i \in ValidSamples : \A k \in 0..9 :
          Output[RNames[k + 1]][i] = FromInt(Recentre(poly, i - (Input.shape[3] \div 2))[k + 1])

\* C2: whenever the block is smaller than the kernel on some axis, the
\* computation ends in an error and no profile is produced or emitted.
C2_ShapeRejection ==
    (Input # NoInput /\ ~BlockCoversKernel)
    => /\ pc \in {"input", "dead"}
       /\ pc = "dead" => err = "ShapeError"

\* C3: with a weight factor <= 0 or a window of fewer than ten samples the
\* kernel construction ends in ConfigurationError and np.linalg.inv is never
\* called.
C3_ConfigurationRejection ==
    (wf[1] <= 0 \/ xs * ys * zs < 10)
    => /\ pc \in {"start", "dead"}
       /\ ~kernel.inverted
       /\ pc = "dead" => err = "ConfigurationError"

\* The profiles the script declares, as the current Output holds them
Declared == [n \in OutputNames(variant) |-> Output[n]]

\* Whether the triple a is a rearrangement of the triple b
Rearranged(a, b) ==
    \E f \in [1..3 -> 1..3] : {f[1], f[2], f[3]} = 1..3 /\ \A j \in 1..3 : a[j] = b[f[j]]

\* C4: in every invocation of the eigenvalue script and at every sample, the
\* values stored under e1, e2, e3 are the three eigenvalues eigvalsh returned
\* for the tensor of that sample (as a multiset) and satisfy e1 >= e2 >= e3.
C4_EigenvalueOrdering ==
    (variant = "eig" /\ pc = "computed")
    => \A i \in 0..(Input.shape[3] - 1) :
          /\ RLeq(Output["e2"][i], Output["e1"][i])
          /\ RLeq(Output["e3"][i], Output["e2"][i])
          /\ Rearranged(<<Output["e1"][i], Output["e2"][i], Output["e3"][i]>>,
                        eigvalsh(Tensor(r, i, gam)))

\* C4 witness: a sample with three distinct eigenvalues has been assigned
C4_Witness ==
    /\ variant = "eig"
    /\ pc = "computed"
    /\ \E i \in 0..(Input.shape[3] - 1) :
          /\ ~RLeq(Output["e1"][i], Output["e2"][i])
          /\ ~RLeq(Output["e2"][i], Output["e3"][i])

\* v^T M v for a 3x3 matrix M and an integer vector v
Quad(M, v) ==
    LET term(q) == RMul(FromInt(v[((q - 1) \div 3) + 1] * v[((q - 1) % 3) + 1]),
                        M[((q - 1) \div 3) + 1][((q - 1) % 3) + 1])
    IN  SumTo(term, 9)

ProbeVectors == {-1, 0, 1} \X {-1, 0, 1} \X {-1, 0, 1}

\* C6: for every coefficient vector and every gamma >= 0 the tensor
\* T = A*A^T + gamma*(g*g^T) assembled from it is symmetric and positive
\* semi-definite (v^T T v >= 0), and the smallest eigenvalue e3 stored for it
\* is not negative.
C6_NonNegativity ==
    (variant = "eig" /\ pc = "computed" /\ gam[1] >= 0)
    => \A i \in DOMAIN T :
          /\ \A a, b \in 1..3 : T[i][a][b] = T[i][b][a]
          /\ \A v \in ProbeVectors : RLeq(Zero, Quad(T[i], v))
          /\ T[i] = Tensor(r, i, gam)
          /\ RLeq(Zero, Output["e3"][i])

\* C6 witness: a tensor with a curvature part, a gradient part weighted by a
\* positive gamma, and a smallest eigenvalue that is positive
C6_Witness ==
    /\ variant = "eig"
    /\ pc = "computed"
    /\ gam[1] > 0
    /\ \E i \in DOMAIN T :
          /\ Gradient(r, i) # <<Zero, Zero, Zero>>
          /\ CurvatureBlock(r, i)[1][2] # Zero
          /\ Output["e3"][i][1] > 0

\* The samples of the profile r0 that hold something other than the zero
\* np.zeros put there
Assigned == {z \in DOMAIN Output["r0"] : Output["r0"][z] # Zero}

\* C5: for a block at least as long as the kernel on z, each profile has the
\* block's length, exactly the samples z with Kz div 2 <= z < Z - Kz div 2
\* hold a correlation sum and every other sample is left as np.zeros made it;
\* for Kz = 3 and Z = 7 the assigned samples are exactly 1..5.
C5_ValidRange ==
    (variant = "coef" /\ pc = "computed" /\ Input.shape[3] >= kernel.shape[3])
    => /\ \A k \in 1..NCoef :
             /\ DOMAIN Output[RNames[k]] = 0..(Input.shape[3] - 1)
             /\ \A z \in (0..(Input.shape[3] - 1)) \ ValidSamples :
                   Output[RNames[k]][z] = Zero
             /\ BlockCoversKernel
                => \A z \in ValidSamples :
                      Output[RNames[k]][z]
                          = Correlate(Input, kernel.shape, kernel.k[k], z, 0)
       /\ BlockCoversKernel => Assigned = ValidSamples
       /\ (BlockCoversKernel /\ kernel.shape[3] = 3 /\ Input.shape[3] = 7)
          => Assigned = 1..5

\* C5 witness: a block of seven samples correlated with finite kernels of
\* three samples
C5_Witness ==
    /\ variant = "coef"
    /\ pc = "computed"
    /\ kernel.kind = "ok"
    /\ BlockCoversKernel
    /\ kernel.shape[3] = 3
    /\ Input.shape[3] = 7
    /\ Assigned = 1..5

\* C10: for a block at least as large as the kernel on every axis, every
\* index the loops read lies inside its array: the block indices X//2-Xf//2+ii,
\* Y//2-Yf//2+jj, i-Zf//2+kk in the block, the filter indices Xf-1-ii,
\* Yf-1-jj, Zf-1-kk in the kernel; no negative index, no IndexError.
C10_IndexSafety ==
    (Input # NoInput /\ BlockCoversKernel)
    => /\ \A t \in ArrReads(Input.shape, kernel.shape) :
             \A d \in 1..3 : 0 <= t[d] /\ t[d] < Input.shape[d]
       /\ \A t \in FiltReads(Input.shape, kernel.shape) :
             \A d \in 1..3 : 0 <= t[d] /\ t[d] < kernel.shape[d]
       /\ err # "IndexError"

\* C10 witness: a kernel with even extents has been correlated with a block
\* that is larger than it on x, and the loops did run
C10_Witness ==
    /\ pc = "computed"
    /\ BlockCoversKernel
    /\ kernel.shape[1] = 2
    /\ Input.shape[1] = 3
    /\ Input.shape[3] > kernel.shape[3]
    /\ ArrReads(Input.shape, kernel.shape) # {}

\* C8 (state part): what is computed for a block equal to the remembered one
\* equals what was emitted for the remembered one, whatever came in between,
\* and the samples outside the valid range hold no value of an earlier block.
C8_SameBlockSameOutput ==
    /\ (memo # NoMemo /\ Input = memo.block /\ pc = "computed") => Declared = memo.out
    /\ (memo # NoMemo /\ Input = memo.block /\ pc = "ready") => sent = memo.out
    /\ pc = "computed"
       => \A n \in OutputNames(variant) :
             \A z \in (0..(Input.shape[3] - 1)) \ ValidSamples : Output[n][z] = Zero

\* C8: over any sequence of iterations the emitted outputs depend only on the
\* iteration's block and on the kernel set built at start-up: the kernel set
\* is never modified once built, and the same block supplied in two
\* iterations yields the same outputs, with nothing left over from an
\* earlier iteration.
C8_Determinism ==
    /\ []C8_SameBlockSameOutput
    /\ [][kernel.kind # "none" => kernel' = kernel]_vars

\* C8 witness: the remembered block has come again after a different block,
\* and has been answered
C8_Witness ==
    /\ memo # NoMemo
    /\ memo.others
    /\ pc = "ready"
    /\ pending = 0
    /\ Input = memo.block
    /\ sent = memo.out

\* Whether A^T W A of each configuration is a matrix of finite values without
\* an inverse
SingularTable ==
    [c \in Windows \X Sigmas |->
        lpa3D_init(c[1][1], c[1][2], c[1][3][2] - c[1][3][1] + 1, c[2], FALSE).kind
            = "LinAlgError"]

NormalMatrixSingular ==
    SingularTable[<<<<SI.nrinl, SI.nrcrl, params.ZSampMargin>>, params.Par_0>>]

InLoop == pc \in {"ready", "input", "computed"}

\* C9 (state part): nothing is read or written before the kernel set exists
\* or after the inversion has failed; in the loop at most one doInput is
\* unanswered and every declared output is assigned before doOutput.
C9_Ordering ==
    /\ (Input # NoInput \/ sent # EmptyDict \/ pending # 0) => kernel.kind \in {"ok", "nan"}
    /\ err = "LinAlgError"
       => (pc = "dead" /\ Input = NoInput /\ sent = EmptyDict /\ pending = 0)
    /\ pc = "dead" <=> err # "none"
    /\ pc = "ready" => pending = 0
    /\ pc = "input" => pending = 1
    /\ pc = "computed" => (pending = 1 /\ OutputNames(variant) \subseteq DOMAIN Output)

\* C9 (step part): the kernel set is assigned only by the first step, which
\* ends dead with LinAlgError when the matrix is singular; a dead program
\* stays dead; the program never leaves the loop once in it; a block is taken
\* only when none is unanswered; doOutput answers exactly one doInput and
\* sends what the iteration assigned.
C9_Steps ==
    /\ kernel' # kernel => (pc = "start" /\ Input = NoInput /\ pending = 0)
    /\ pc # "start" => pc' # "start"
    /\ (pc = "start" /\ pc' # "start" /\ NormalMatrixSingular)
       => (pc' = "dead" /\ err' = "LinAlgError")
    /\ pc = "dead" => pc' = "dead"
    /\ InLoop => (pc' \in {"ready", "input", "computed"})
    /\ pending' > pending => (pc = "ready" /\ pc' = "input" /\ pending' = pending + 1)
    /\ pc = "input" => (pc' = "input" \/ (pc' = "computed" /\ Input' = Input))
    /\ pending' < pending
       => (pc = "computed" /\ pending' = pending - 1 /\ sent' = Declared /\ pc' = "ready")
    /\ sent' # sent => pending' < pending

C7_GammaDefined ==
    (/\ variant = "eig"
     /\ xs >= 1 /\ ys >= 1 /\ zs >= 1
     /\ xs * ys * zs >= 10
     /\ wf[1] > 0
     /\ kernel.kind \in {"ok", "nan"}
     /\ pc # "gamma")
    => /\ err = "none"
       /\ IsFinite(gam)
       /\ RMul(gam, RMul(FromInt(8 * (Min3(xs, ys, zs) - 1) * (Min3(xs, ys, zs) - 1)),
                         RMul(wf, wf))) = One
====
